---------------------------- MODULE Spec2Model ----------------------------
(***************************************************************************)
(* Row-level security model of the MySurgeon schema                        *)
(* (src/unnamed/part_000, lines 1-279: tables, constraints, RLS policies   *)
(* and the handle_new_user signup trigger).                                *)
(*                                                                         *)
(* State: auth_users (the identity store's rows), db (one set of rows per  *)
(* public table) and last (the statement executed last, with its outcome   *)
(* and, for a SELECT, the rows it returned).                               *)
(*                                                                         *)
(* Statements issued through the client of src/src/lib/supabase.ts run     *)
(* under row security: the policies of the statement's table are OR-ed     *)
(* into it, and a sub-select inside a policy is itself a query on          *)
(* public.profiles by the same caller, so the SELECT policies of profiles  *)
(* are applied to it in turn.  Two policies of profiles contain such a     *)
(* sub-select on profiles, so that expansion re-enters profiles; the       *)
(* database rejects the statement ("infinite recursion detected in policy  *)
(* for relation profiles").  Rewrite below computes this.                  *)
(***************************************************************************)
EXTENDS Integers, FiniteSets, TLC

VARIABLES auth_users, db, last

vars == <<auth_users, db, last>>

(* ------------------------------ bounds -------------------------------- *)
\* identities are numbered 1..MaxUsers
MaxUsers == 2
\* generated row ids of vital_signs, surgical_history, surgical_cases
MaxRows == 1

(* ----------------------------- value sets ----------------------------- *)
\* SQL NULL in a uuid column (surgeon_id after ON DELETE SET NULL)
NULL_ID == 0
\* SQL NULL in a text value (a metadata key that is absent)
NULL == "NULL"

Ids == 1..MaxUsers
RowIds == 1..MaxRows
Emails == {"a@x.com", "b@x.com"}
Roles == {"patient", "surgeon", "admin"}
CaseStatuses == {"proposed", "scheduled", "in_progress", "completed", "cancelled"}
Tables == {"profiles", "patient_details", "surgeon_details", "vital_signs",
           "surgical_history", "surgical_cases", "historical_surgical_data"}
Cmds == {"SELECT", "INSERT", "UPDATE", "DELETE"}

\* inputs the model draws from
MetaNames == {NULL, "Ann"}
MetaRoles == {NULL, "patient", "surgeon", "admin", "nurse"}
Specialties == {"General Surgery", "Orthopedic"}
StatusInputs == {"proposed", "scheduled"}

\* the key column of each table's rows
KeyCol(tbl) == IF tbl \in {"patient_details", "surgeon_details"} THEN "user_id" ELSE "id"

\* the 20 sample rows inserted by the migration (id stands for the generated
\* uuid and is the row's week_number)
SampleData ==
    LET vol == <<42, 45, 38, 51, 47, 49, 52, 48, 44, 46,
                 50, 53, 55, 41, 43, 47, 49, 52, 48, 45>>
    IN { [id |-> w, surgical_volume |-> vol[w]] : w \in 1..20 }


(* --------------------------- row security ----------------------------- *)
\* variant: row security never enabled on profiles
RLSEnabledNotProfiles(tbl) == tbl \in Tables \ {"profiles"}

\* ALTER TABLE ... ENABLE ROW LEVEL SECURITY: all seven tables
RLSEnabled(tbl) == tbl \in Tables

\* One record per CREATE POLICY.  The policy's expression is the disjunction
\* of: auth.uid() = <col> (col # "none"); EXISTS (SELECT 1 FROM
\* public.profiles WHERE id = auth.uid() AND role IN <roles>) (roles # {});
\* and true (open).
Pol(name, tbl, cmd, col, roles, open) ==
    [name |-> name, tbl |-> tbl, cmd |-> cmd, col |-> col, roles |-> roles, open |-> open]

Policies == {
    Pol("Users can view their own profile", "profiles", "SELECT", "id", {}, FALSE),
    Pol("Users can update their own profile", "profiles", "UPDATE", "id", {}, FALSE),
    Pol("Users can insert their own profile", "profiles", "INSERT", "id", {}, FALSE),
    Pol("Surgeons can view other profiles", "profiles", "SELECT", "none", {"surgeon"}, FALSE),
    Pol("Admins can view all profiles", "profiles", "ALL", "none", {"admin"}, FALSE),
    Pol("Patients can manage their own details", "patient_details", "ALL", "user_id", {}, FALSE),
    Pol("Surgeons can view patient details", "patient_details", "SELECT", "none",
        {"surgeon", "admin"}, FALSE),
    Pol("Surgeons can manage their own details", "surgeon_details", "ALL", "user_id", {}, FALSE),
    Pol("Public can view surgeon details", "surgeon_details", "SELECT", "none", {}, TRUE),
    Pol("Patients can view their own vital signs", "vital_signs", "SELECT", "patient_id", {}, FALSE),
    Pol("Patients can insert their own vital signs", "vital_signs", "INSERT", "patient_id", {}, FALSE),
    Pol("Healthcare providers can manage vital signs", "vital_signs", "ALL", "none",
        {"surgeon", "admin"}, FALSE),
    Pol("Patients can view their own surgical history", "surgical_history", "SELECT",
        "patient_id", {}, FALSE),
    Pol("Surgeons can view and manage surgical history", "surgical_history", "ALL", "none",
        {"surgeon", "admin"}, FALSE),
    Pol("Patients can view their own cases", "surgical_cases", "SELECT", "patient_id", {}, FALSE),
    Pol("Surgeons can manage their cases", "surgical_cases", "ALL", "surgeon_id", {"admin"}, FALSE),
    Pol("Admins can manage historical data", "historical_surgical_data", "ALL", "none",
        {"admin"}, FALSE),
    Pol("Surgeons can view historical data", "historical_surgical_data", "SELECT", "none",
        {"surgeon", "admin"}, FALSE) }

\* the policies of tbl that apply to command cmd (FOR ALL applies to each)
AppliedPolicies(tbl, cmd) ==
    { p \in Policies : p.tbl = tbl /\ p.cmd \in {cmd, "ALL"} }

\* an UPDATE or DELETE that addresses a row by its key reads the table, so
\* the SELECT policies are applied to it as well
NeedsSelect(cmd) == cmd \in {"UPDATE", "DELETE"}

StatementPolicies(tbl, cmd) ==
    AppliedPolicies(tbl, cmd) \cup
    (IF NeedsSelect(cmd) THEN AppliedPolicies(tbl, "SELECT") ELSE {})

HasSubLinks(ps) == \E p \in ps : p.roles # {}

\* Expansion of the policies ps of tbl into a statement; active holds the
\* tables whose policies are being expanded.  Every sub-select of a policy
\* is a SELECT on public.profiles, expanded with the SELECT policies of
\* profiles.  Re-entering a table under expansion is the recursion error.
RECURSIVE Rewrite(_, _, _)
Rewrite(tbl, ps, active) ==
    IF ~RLSEnabled(tbl) \/ ~HasSubLinks(ps) THEN "ok"
    ELSE IF tbl \in active THEN "recursion"
    ELSE Rewrite("profiles", AppliedPolicies("profiles", "SELECT"), active \cup {tbl})

\* variant: the role sub-selects are resolved without applying the policies
\* of profiles to them
RewriteStatementUnchecked(tbl, cmd) == "ok"

RewriteStatement(tbl, cmd) == Rewrite(tbl, StatementPolicies(tbl, cmd), {})

\* a row of profiles as seen by the sub-select of a policy (reached only
\* when the expansion above succeeded, i.e. the SELECT policies of profiles
\* hold no sub-select themselves)
ProfileVisibleInLookup(c, r) ==
    \/ ~RLSEnabled("profiles")
    \/ \E p \in AppliedPolicies("profiles", "SELECT") :
          \/ p.open
          \/ p.col # "none" /\ r[p.col] = c

\* EXISTS (SELECT 1 FROM public.profiles WHERE id = auth.uid() AND role IN roles)
RoleLookup(c, roles) ==
    \E r \in db["profiles"] :
        r.id = c /\ r.role \in roles /\ ProfileVisibleInLookup(c, r)

\* the expression of policy p for caller c (auth.uid() = c) and row r
Qual(p, c, r) ==
    \/ p.open
    \/ p.col # "none" /\ r[p.col] = c
    \/ p.roles # {} /\ RoleLookup(c, p.roles)

\* permissive policies combine with OR; with row security enabled and no
\* applicable policy the row is denied
Admits(tbl, cmd, c, r) ==
    \/ ~RLSEnabled(tbl)
    \/ \E p \in AppliedPolicies(tbl, cmd) : Qual(p, c, r)

\* row r may be read / written / removed by caller c with command cmd
\* (USING: the existing row; WITH CHECK, which defaults to USING: the new row)
RowAdmitted(tbl, cmd, c, r) ==
    /\ Admits(tbl, cmd, c, r)
    /\ NeedsSelect(cmd) => Admits(tbl, "SELECT", c, r)

\* the role the policies of tbl obtain for caller c from their sub-select
CallerRole(c, tbl) ==
    IF Rewrite("profiles", AppliedPolicies("profiles", "SELECT"), {tbl}) = "recursion"
    THEN "recursion"
    ELSE IF \E r \in db["profiles"] : r.id = c /\ ProfileVisibleInLookup(c, r)
         THEN (CHOOSE r \in db["profiles"] : r.id = c).role
         ELSE NULL

(* ---------------------------- constraints ----------------------------- *)
ProfileIds(d) == { r.id : r \in d["profiles"] }

\* variant: no CHECK on role
RoleCheckAny(role) == TRUE

\* CHECK (role IN ('patient', 'surgeon', 'admin'))
RoleCheck(role) == role \in Roles

\* CHECK (status IN ('proposed', 'scheduled', 'in_progress', 'completed', 'cancelled'))
StatusCheck(status) == status \in CaseStatuses

\* the column constraints of tbl on row r, given users u and tables d (the
\* row with r's key, if any, is not in d[tbl])
ConstraintsOk(tbl, r, u, d) ==
    /\ \A o \in d[tbl] : o[KeyCol(tbl)] # r[KeyCol(tbl)]
    /\ CASE tbl = "profiles" ->
              /\ r.id \in { x.id : x \in u }
              /\ r.email # NULL /\ \A o \in d[tbl] : o.email # r.email
              /\ r.full_name # NULL
              /\ RoleCheck(r.role)
         [] tbl \in {"patient_details", "surgeon_details"} ->
              r.user_id \in ProfileIds(d)
         [] tbl = "vital_signs" ->
              r.patient_id \in ProfileIds(d)
         [] tbl = "surgical_history" ->
              /\ r.patient_id \in ProfileIds(d)
              /\ r.surgeon_id \in ProfileIds(d) \cup {NULL_ID}
         [] tbl = "surgical_cases" ->
              /\ r.patient_id \in ProfileIds(d)
              /\ r.surgeon_id \in ProfileIds(d) \cup {NULL_ID}
              /\ StatusCheck(r.status)
         [] OTHER -> TRUE

\* variant: the surgeon reference is left as it is
SurgeonRefKept(r, id) == r

\* surgeon_id ... ON DELETE SET NULL
SurgeonRefAfterDelete(r, id) ==
    IF r.surgeon_id = id THEN [r EXCEPT !.surgeon_id = NULL_ID] ELSE r

\* the tables after the row of profiles with this id is deleted:
\* ON DELETE CASCADE for user_id / patient_id, ON DELETE SET NULL for surgeon_id
OnDeleteProfile(d, id) ==
    [t \in Tables |->
        CASE t = "profiles" -> { r \in d[t] : r.id # id }
          [] t \in {"patient_details", "surgeon_details"} -> { r \in d[t] : r.user_id # id }
          [] t = "vital_signs" -> { r \in d[t] : r.patient_id # id }
          [] t \in {"surgical_history", "surgical_cases"} ->
                { SurgeonRefAfterDelete(r, id) : r \in { x \in d[t] : x.patient_id # id } }
          [] OTHER -> d[t]]

\* the tables after the row of tbl with this key is deleted
DeleteRow(d, tbl, key) ==
    IF tbl = "profiles" THEN OnDeleteProfile(d, key)
    ELSE [d EXCEPT ![tbl] = { r \in d[tbl] : r[KeyCol(tbl)] # key }]

(* ------------------------------- inputs ------------------------------- *)
\* the tables whose rows get their id from gen_random_uuid()
DataTables == {"vital_signs", "surgical_history", "surgical_cases"}

\* gen_random_uuid() yields an id no row carries
FreshRowIds == { i \in RowIds : \A t \in DataTables : \A r \in db[t] : r.id # i }

\* the rows a statement may try to write
RowInputs(tbl, keys) ==
    CASE tbl = "profiles" ->
           [id : keys, email : Emails, full_name : {"Ann"}, role : Roles]
      [] tbl = "patient_details" -> [user_id : keys]
      [] tbl = "surgeon_details" -> [user_id : keys, specialty : Specialties]
      [] tbl = "vital_signs" -> [id : keys, patient_id : Ids]
      [] tbl = "surgical_history" ->
           [id : keys, patient_id : Ids, surgeon_id : Ids \cup {NULL_ID}]
      [] tbl = "surgical_cases" ->
           [id : keys, patient_id : Ids, surgeon_id : Ids \cup {NULL_ID}, status : StatusInputs]
      [] OTHER -> [id : keys, surgical_volume : {40}]

InsertKeys(tbl) ==
    CASE tbl \in {"profiles", "patient_details", "surgeon_details"} -> Ids
      [] tbl = "historical_surgical_data" -> {21}
      [] OTHER -> FreshRowIds

Keys(tbl) == { r[KeyCol(tbl)] : r \in db[tbl] }

NoArg == [email |-> NULL, full_name |-> NULL, role |-> NULL]

Done(op, tbl, c, outcome, rows) ==
    [op |-> op, tbl |-> tbl, caller |-> c, outcome |-> outcome, rows |-> rows, arg |-> NoArg]

Callers == { u.id : u \in auth_users }

(* ------------------------------ signup -------------------------------- *)
\* COALESCE(NEW.raw_user_meta_data->>'full_name', 'Unknown User')
DefaultName(name) == IF name = NULL THEN "Unknown User" ELSE name

\* variant: the default role is surgeon
DefaultRoleSurgeon(role) == IF role = NULL THEN "surgeon" ELSE role

\* COALESCE(NEW.raw_user_meta_data->>'role', 'patient')
DefaultRole(role) == IF role = NULL THEN "patient" ELSE role

\* the row handle_new_user inserts for NEW = (id, email, metadata)
handle_new_user(id, email, name, role) ==
    [id |-> id, email |-> email, full_name |-> DefaultName(name), role |-> DefaultRole(role)]

\* INSERT ON auth.users with its AFTER INSERT trigger on_auth_user_created.
\* The trigger function is SECURITY DEFINER (row security does not apply to
\* its insert); a constraint violation in it aborts the whole statement.
CreateIdentity(id, email, name, role) ==
    LET user == [id |-> id, email |-> email]
        row == handle_new_user(id, email, name, role)
        ok == ConstraintsOk("profiles", row, auth_users \cup {user}, db)
    IN /\ id \notin Callers
       /\ auth_users' = IF ok THEN auth_users \cup {user} ELSE auth_users
       /\ db' = IF ok THEN [db EXCEPT !["profiles"] = @ \cup {row}] ELSE db
       /\ last' = [op |-> "signup", tbl |-> "auth.users", caller |-> id,
                   outcome |-> IF ok THEN "ok" ELSE "error", rows |-> {},
                   arg |-> [email |-> email, full_name |-> name, role |-> role]]

\* DELETE FROM auth.users: profiles.id REFERENCES auth.users(id) ON DELETE CASCADE
DeleteIdentity(id) ==
    /\ id \in Callers
    /\ auth_users' = { u \in auth_users : u.id # id }
    /\ db' = OnDeleteProfile(db, id)
    /\ last' = Done("delete_identity", "auth.users", NULL_ID, "ok",
                    UNION { { <<t, r.id>> : r \in { x \in db[t] : x.surgeon_id = id
                                                                      /\ x.patient_id # id } } :
                            t \in {"surgical_history", "surgical_cases"} })

(* ------------------------- client statements -------------------------- *)
\* SELECT * FROM tbl, issued by caller c
Select(c, tbl) ==
    LET rw == RewriteStatement(tbl, "SELECT")
    IN /\ c \in Callers
       /\ UNCHANGED <<auth_users, db>>
       /\ last' = IF rw = "recursion"
                  THEN Done("select", tbl, c, "recursion", {})
                  ELSE Done("select", tbl, c, "ok",
                            { r \in db[tbl] : RowAdmitted(tbl, "SELECT", c, r) })

\* INSERT INTO tbl VALUES (row), issued by caller c
Insert(c, tbl, row) ==
    LET rw == RewriteStatement(tbl, "INSERT")
        outcome == IF rw = "recursion" THEN "recursion"
                   ELSE IF ~RowAdmitted(tbl, "INSERT", c, row) THEN "denied"
                   ELSE IF ~ConstraintsOk(tbl, row, auth_users, db) THEN "constraint"
                   ELSE "ok"
    IN /\ c \in Callers
       /\ UNCHANGED auth_users
       /\ db' = IF outcome = "ok" THEN [db EXCEPT ![tbl] = @ \cup {row}] ELSE db
       /\ last' = Done("insert", tbl, c, outcome, {})

\* UPDATE tbl SET (non-key columns) = (those of row) WHERE key = row's key
Update(c, tbl, row) ==
    LET rw == RewriteStatement(tbl, "UPDATE")
        key == row[KeyCol(tbl)]
        old == { r \in db[tbl] : r[KeyCol(tbl)] = key /\ RowAdmitted(tbl, "UPDATE", c, r) }
        rest == [db EXCEPT ![tbl] = { r \in @ : r[KeyCol(tbl)] # key }]
        outcome == IF rw = "recursion" THEN "recursion"
                   ELSE IF old = {} THEN "no_rows"
                   ELSE IF ~RowAdmitted(tbl, "UPDATE", c, row) THEN "denied"
                   ELSE IF ~ConstraintsOk(tbl, row, auth_users, rest) THEN "constraint"
                   ELSE "ok"
    IN /\ c \in Callers
       /\ UNCHANGED auth_users
       /\ db' = IF outcome = "ok" THEN [rest EXCEPT ![tbl] = @ \cup {row}] ELSE db
       /\ last' = Done("update", tbl, c, outcome, {})

\* DELETE FROM tbl WHERE key = key
Delete(c, tbl, key) ==
    LET rw == RewriteStatement(tbl, "DELETE")
        old == { r \in db[tbl] : r[KeyCol(tbl)] = key /\ RowAdmitted(tbl, "DELETE", c, r) }
        outcome == IF rw = "recursion" THEN "recursion"
                   ELSE IF old = {} THEN "no_rows"
                   ELSE "ok"
    IN /\ c \in Callers
       /\ UNCHANGED auth_users
       /\ db' = IF outcome = "ok" THEN DeleteRow(db, tbl, key) ELSE db
       /\ last' = Done("delete", tbl, c, outcome, {})

(* ------------------ statements not under row security ----------------- *)
\* INSERT INTO tbl VALUES (row) by the table owner (as the migration's own
\* INSERT): the constraints apply, the policies do not
DirectInsert(tbl, row) ==
    LET ok == ConstraintsOk(tbl, row, auth_users, db)
    IN /\ UNCHANGED auth_users
       /\ db' = IF ok THEN [db EXCEPT ![tbl] = @ \cup {row}] ELSE db
       /\ last' = Done("direct_insert", tbl, NULL_ID,
                       IF ok THEN "ok" ELSE "constraint", {})

(* --------------------------- specifications --------------------------- *)
\* after the migration: no identity, empty tables, the sample data
Init ==
    /\ auth_users = {}
    /\ db = [t \in Tables |-> IF t = "historical_surgical_data" THEN SampleData ELSE {}]
    /\ last = Done("migration", "historical_surgical_data", NULL_ID, "ok", {})

Signup == \E id \in Ids, email \in Emails, name \in MetaNames, role \in MetaRoles :
              CreateIdentity(id, email, name, role)

\* signups that give a name and a valid role
SignupNamed == \E id \in Ids, email \in Emails, role \in Roles :
                   CreateIdentity(id, email, "Ann", role)

\* signups without metadata
SignupPlain == \E id \in Ids, email \in Emails : CreateIdentity(id, email, NULL, NULL)

Removal == \E id \in Ids : DeleteIdentity(id)

ClientSelect(T) == \E c \in Ids, tbl \in T : Select(c, tbl)

ClientInsert(T) == \E c \in Ids, tbl \in T :
                       \E row \in RowInputs(tbl, InsertKeys(tbl)) : Insert(c, tbl, row)

ClientUpdate(T) == \E c \in Ids, tbl \in T :
                       \E row \in RowInputs(tbl, Keys(tbl)) : Update(c, tbl, row)

ClientDelete(T) == \E c \in Ids, tbl \in T :
                       \E key \in Keys(tbl) : Delete(c, tbl, key)

\* the rows the owner enters: one specialty, one status
OwnerRows(tbl) ==
    { r \in RowInputs(tbl, InsertKeys(tbl)) :
        /\ tbl = "surgeon_details" => r.specialty = "General Surgery"
        /\ tbl = "surgical_cases" => r.status = "proposed" }

OwnerInsert(T) == \E tbl \in T : \E row \in OwnerRows(tbl) : DirectInsert(tbl, row)

\* Statements on different tables meet only in profiles (the policies' role
\* lookup reads it, the cascade starts from it), so each specification pairs
\* the identity operations with the statements on one group of tables.
ProfileTables == {"profiles", "historical_surgical_data"}
DetailTables == {"patient_details", "surgeon_details"}

\* identities, and client statements on profiles and the sample data
Next ==
    \/ Signup
    \/ Removal
    \/ ClientSelect(ProfileTables)
    \/ ClientInsert(ProfileTables)
    \/ ClientUpdate(ProfileTables)
    \/ ClientDelete(ProfileTables)

Spec == Init /\ [][Next]_vars

\* identities, and client statements on patient_details and surgeon_details
NextDetails ==
    \/ SignupNamed
    \/ Removal
    \/ ClientSelect(DetailTables)
    \/ ClientInsert(DetailTables)
    \/ ClientUpdate(DetailTables)
    \/ ClientDelete(DetailTables)

SpecDetails == Init /\ [][NextDetails]_vars

\* identities, rows entered by the owner, and client statements on the
\* data tables
NextData ==
    \/ SignupNamed
    \/ Removal
    \/ OwnerInsert(DataTables)
    \/ ClientSelect(DataTables)
    \/ ClientInsert(DataTables)
    \/ ClientUpdate(DataTables)
    \/ ClientDelete(DataTables)

SpecData == Init /\ [][NextData]_vars

\* identities and rows entered by the owner in every table that references
\* profiles
NextFK ==
    \/ SignupPlain
    \/ Removal
    \/ OwnerInsert(DetailTables \cup DataTables)

SpecFK == Init /\ [][NextFK]_vars

(* ------------------------------- claims ------------------------------- *)
\* the role stored in caller c's row of profiles
RoleOf(c) ==
    IF c \in ProfileIds(db) THEN (CHOOSE r \in db["profiles"] : r.id = c).role ELSE NULL

UserIds == { u.id : u \in auth_users }

\* C1: a signup that succeeds leaves exactly one row of profiles for the new
\* identity, with its id and email, full_name = metadata full_name or
\* "Unknown User", role = metadata role or "patient"; and a signup fails only
\* on an invalid role or an email some profile already has.
C1_ProvisionedProfile ==
    last.op = "signup" =>
        /\ last.outcome = "ok" =>
              { r \in db["profiles"] : r.id = last.caller } =
                 { [id |-> last.caller,
                    email |-> last.arg.email,
                    full_name |-> IF last.arg.full_name = NULL THEN "Unknown User"
                                  ELSE last.arg.full_name,
                    role |-> IF last.arg.role = NULL THEN "patient" ELSE last.arg.role] }
        /\ last.outcome # "ok" =>
              \/ last.arg.role \notin Roles \cup {NULL}
              \/ \E r \in db["profiles"] : r.email = last.arg.email

C1_Witness ==
    /\ last.op = "signup" /\ last.outcome = "ok"
    /\ last.arg.role = NULL /\ last.arg.full_name = NULL
    /\ \E r \in db["profiles"] : r.id # last.caller /\ r.role = "surgeon" /\ r.full_name = "Ann"

\* C2: a signup whose metadata role is outside {patient, surgeon, admin}
\* fails, and the step leaves auth.users and every table as they were: no
\* identity and no profile for it.
C2_InvalidRoleFailsSignup ==
    [][ (last'.op = "signup" /\ last'.arg.role \notin Roles \cup {NULL}) =>
            /\ last'.outcome = "error"
            /\ db' = db /\ auth_users' = auth_users
            /\ last'.caller \notin { u.id : u \in auth_users' }
            /\ last'.caller \notin ProfileIds(db') ]_vars

C2_Witness ==
    /\ last.op = "signup" /\ last.arg.role = "nurse" /\ last.outcome = "error"
    /\ db["profiles"] # {}

\* C3: a patient's select on vital_signs returns exactly the rows with the
\* patient's own patient_id; a surgeon's or admin's select returns all rows.
C3_VitalSignsSelect ==
    (last.op = "select" /\ last.tbl = "vital_signs") =>
        /\ RoleOf(last.caller) = "patient" =>
              last.rows = { r \in db["vital_signs"] : r.patient_id = last.caller }
        /\ RoleOf(last.caller) \in {"surgeon", "admin"} =>
              last.rows = db["vital_signs"]

\* C4: an update of surgical_cases by a caller who is neither surgeon_id of
\* the row nor an admin leaves the row as it was, also for the row's patient;
\* and the row's patient gets the row from a select.
C4_CaseUpdateDenied ==
    [][ /\ (last'.op = "update" /\ last'.tbl = "surgical_cases"
                /\ RoleOf(last'.caller) # "admin") =>
              \A r \in db["surgical_cases"] :
                  r.surgeon_id # last'.caller => r \in db'["surgical_cases"]
        /\ (last'.op = "select" /\ last'.tbl = "surgical_cases") =>
              \A r \in db'["surgical_cases"] :
                  r.patient_id = last'.caller => r \in last'.rows ]_vars

C6_AdminFullAccess ==
    \A c \in ProfileIds(db) : RoleOf(c) = "admin" =>
        \A tbl \in Tables, cmd \in Cmds : \A r \in db[tbl] :
            /\ RewriteStatement(tbl, cmd) = "ok"
            /\ RowAdmitted(tbl, cmd, c, r)

C9_RoleLookupYieldsRole ==
    /\ \A c \in ProfileIds(db), tbl \in Tables :
          (\E p \in Policies : p.tbl = tbl /\ p.roles # {}) => CallerRole(c, tbl) = RoleOf(c)
    /\ last.outcome # "recursion"

\* no row references a profile that does not exist
RefIntegrity(d) ==
    /\ \A t \in {"patient_details", "surgeon_details"} :
          \A r \in d[t] : r.user_id \in ProfileIds(d)
    /\ \A r \in d["vital_signs"] : r.patient_id \in ProfileIds(d)
    /\ \A t \in {"surgical_history", "surgical_cases"} :
          \A r \in d[t] : /\ r.patient_id \in ProfileIds(d)
                          /\ r.surgeon_id \in ProfileIds(d) \cup {NULL_ID}

\* C10: after every step no row references a missing profile; and the step
\* that deletes the profile with a given id removes the rows of
\* patient_details, surgeon_details, vital_signs, surgical_history and
\* surgical_cases owned by it, keeps every other row, and sets surgeon_id to
\* null in the kept rows of surgical_history and surgical_cases that named it.
C10_ReferentialIntegrity ==
    [][ /\ RefIntegrity(db')
        /\ \A id \in ProfileIds(db) \ ProfileIds(db') :
              /\ \A t \in {"patient_details", "surgeon_details"} :
                    db'[t] = { r \in db[t] : r.user_id # id }
              /\ db'["vital_signs"] = { r \in db["vital_signs"] : r.patient_id # id }
              /\ \A t \in {"surgical_history", "surgical_cases"} :
                    /\ \A r \in db[t] :
                          r.patient_id # id =>
                             IF r.surgeon_id = id
                             THEN [r EXCEPT !.surgeon_id = NULL_ID] \in db'[t]
                             ELSE r \in db'[t]
                    /\ Cardinality(db'[t]) =
                          Cardinality({ r \in db[t] : r.patient_id # id }) ]_vars

C10_Witness ==
    /\ last.op = "delete_identity" /\ last.rows # {}
    /\ \E t \in {"surgical_history", "surgical_cases"} :
          \E r \in db[t] : r.surgeon_id = NULL_ID
    /\ db["profiles"] # {}

=============================================================================
